---- MODULE Spec2Model ----
(***************************************************************************)
(* Cart pricing, checkout and order cancellation of the e-commerce backend *)
(* (models/Cart.js, the Product and Order models, routes/orders.js,        *)
(* routes/cart.js and the seller routes).                                  *)
(*                                                                         *)
(* Money is a JavaScript Number in the source.  Here an amount is an       *)
(* integer count of 1/10000 dollar, so that whole-dollar prices, integer   *)
(* percentages and the 8% tax divide exactly: USD(45, 0) is $45.00,        *)
(* USD(3, 24) is $3.24.                                                    *)
(*                                                                         *)
(* The document store is modelled by three collections: products, carts,   *)
(* orders.  A request handler reads a document into its own local copy at  *)
(* an await of a find, and save() writes the handler's document back.      *)
(***************************************************************************)
EXTENDS Integers, Sequences, FiniteSets, TLC

VARIABLES
  products,   \* Product collection: product id -> document, or NoProduct
  carts,      \* Cart collection: customer key -> document, or NoCart
  orders,     \* Order collection, in insertion order
  req,        \* the request handlers in flight: their position and locals
  prev,       \* the request that completed last (observer, not program state)
  calc        \* the pricing computations applied to drawn inputs

vars == <<products, carts, orders, req, prev, calc>>

-----------------------------------------------------------------------------
(* Bounds of the model *)

MaxQty == 2          \* a quantity passed to a cart method is in 1..MaxQty
MaxItems == 2        \* line items one cart holds
MaxCartQty == 3      \* units the line items of one cart add up to
MaxStock == 3        \* initial stock of a product is at most MaxStock
MaxOrders == 2       \* checkouts are started while fewer orders exist

Products == {"p1", "p2"}
Users == {"u1", "u2"}
Reqs == {"r1", "r2"}

USD(dollars, cents) == dollars * 10000 + cents * 100

-----------------------------------------------------------------------------
(* Documents *)

\* productSchema: name, sku, price, stock and status of a catalog product
NoProduct ==
  [exists |-> FALSE, stock |-> 0, name |-> "", sku |-> "", price |-> 0, status |-> ""]
Product(s) ==
  [exists |-> TRUE, stock |-> s, name |-> "Widget", sku |-> "WID-1",
   price |-> USD(30, 0), status |-> "active"]

\* product.isActive: productSchema declares no path of that name, so the read
\* gives undefined, which is falsy
isActive(product) ==
  IF "isActive" \in DOMAIN product THEN product.isActive ELSE FALSE

\* cartItemSchema.variant absent (null)
NoVariant == [value |-> "", price |-> 0]
Variants == {[value |-> "red", price |-> USD(10, 0)],
             [value |-> "blue", price |-> USD(25, 0)]}

\* cartSchema.coupon with its defaults: no coupon applied
NoCoupon == [code |-> "", discount |-> 0, discountType |-> "percentage"]

ShippingMethods == {"standard", "express", "overnight"}

\* routes/orders.js shippingCosts
ShippingCosts(method) ==
  CASE method = "standard" -> USD(5, 99)
    [] method = "express" -> USD(12, 99)
    [] method = "overnight" -> USD(24, 99)

TaxRatePercent == 8

RECURSIVE SumTotalPrice(_)
\* items.reduce((sum, item) => sum + item.totalPrice, 0)
SumTotalPrice(items) ==
  IF items = <<>> THEN 0
  ELSE Head(items).totalPrice + SumTotalPrice(Tail(items))

\* the discount both calculateTotals derive from a coupon
CouponDiscount(subtotal, coupon) ==
  IF coupon.discount # 0
  THEN IF coupon.discountType = "percentage"
       THEN (subtotal * coupon.discount) \div 100
       ELSE coupon.discount
  ELSE 0

\* (subtotal - discount) * 0.08
Tax(base) == (base * TaxRatePercent) \div 100

\* cartSchema.methods.calculateTotals
CartCalculateTotals(cart) ==
  LET subtotal == SumTotalPrice(cart.items)
      discount == CouponDiscount(subtotal, cart.coupon)
      tax == Tax(subtotal - discount)
  IN [cart EXCEPT !.subtotal = subtotal,
                  !.tax = tax,
                  !.total = subtotal - discount + tax + cart.shippingCost]

\* new Cart({ user }): the schema defaults
NewCart(user) ==
  [user |-> user, items |-> <<>>, coupon |-> NoCoupon,
   shippingMethod |-> "standard", shippingCost |-> 0,
   tax |-> 0, subtotal |-> 0, total |-> 0]

\* no document for this customer key
NoCart == [user |-> ""]

-----------------------------------------------------------------------------
(* Cart methods (models/Cart.js) *)

Indexes(items) == 1..Len(items)

\* the _id Mongoose gives a pushed subdocument: one no item of the cart has
NewItemId(items) ==
  CHOOSE n \in 1..(Len(items) + 1) :
    /\ \A i \in Indexes(items) : items[i].id # n
    /\ \A m \in 1..(n - 1) : \E i \in Indexes(items) : items[i].id = m

\* Array.prototype.find: the first of the indexes whose element satisfies the
\* test, 0 if there is none
FindIndex(found) ==
  IF found = {} THEN 0 ELSE CHOOSE i \in found : \A j \in found : i <= j

\* faulty variant: a line item is appended whether or not the product is there
addItemAlwaysAppends(cart, productId, quantity, variant) ==
  LET unit == IF variant # NoVariant THEN variant.price ELSE 0
  IN CartCalculateTotals([cart EXCEPT !.items =
       Append(@, [id |-> NewItemId(cart.items), product |-> productId,
                  quantity |-> quantity, variant |-> variant,
                  price |-> unit, totalPrice |-> quantity * unit])])

\* cartSchema.methods.addItem
addItem(cart, productId, quantity, variant) ==
  LET Same(item) == /\ item.product = productId
                    /\ (variant = NoVariant \/ item.variant.value = variant.value)
      k == FindIndex({i \in Indexes(cart.items) : Same(cart.items[i])})
      unit == IF variant # NoVariant THEN variant.price ELSE 0
      items ==
        IF k # 0
        THEN [cart.items EXCEPT
                ![k].quantity = @ + quantity,
                ![k].totalPrice = (cart.items[k].quantity + quantity) * cart.items[k].price]
        ELSE Append(cart.items,
                    [id |-> NewItemId(cart.items), product |-> productId,
                     quantity |-> quantity, variant |-> variant,
                     price |-> unit, totalPrice |-> quantity * unit])
  IN CartCalculateTotals([cart EXCEPT !.items = items])

\* faulty variant: with no line item of that id, the last line item goes
removeItemOrLast(cart, itemId) ==
  LET Keep(item) == item.id # itemId
      kept == SelectSeq(cart.items, Keep)
  IN CartCalculateTotals([cart EXCEPT !.items =
       IF Len(kept) = Len(cart.items) /\ cart.items # <<>>
       THEN SubSeq(cart.items, 1, Len(cart.items) - 1) ELSE kept])

\* cartSchema.methods.removeItem
removeItem(cart, itemId) ==
  LET Keep(item) == item.id # itemId
  IN CartCalculateTotals([cart EXCEPT !.items = SelectSeq(cart.items, Keep)])

Max(a, b) == IF a >= b THEN a ELSE b

\* faulty variant: the quantity is set and the line total is left as it was
updateItemQuantityKeepsTotal(cart, itemId, quantity) ==
  LET found == {i \in Indexes(cart.items) : cart.items[i].id = itemId}
  IN IF found # {}
     THEN CartCalculateTotals(
            [cart EXCEPT !.items[CHOOSE i \in found : TRUE].quantity = Max(1, quantity)])
     ELSE cart

\* cartSchema.methods.updateItemQuantity
updateItemQuantity(cart, itemId, quantity) ==
  LET Is(item) == item.id = itemId
      k == FindIndex({i \in Indexes(cart.items) : Is(cart.items[i])})
  IN IF k # 0
     THEN CartCalculateTotals(
            [cart EXCEPT !.items[k].quantity = Max(1, quantity),
                         !.items[k].totalPrice = Max(1, quantity) * cart.items[k].price])
     ELSE cart

\* faulty variant: the coupon is removed and the line items stay
clearCartKeepsItems(cart) == CartCalculateTotals([cart EXCEPT !.coupon = NoCoupon])

\* cartSchema.methods.clearCart
clearCart(cart) ==
  CartCalculateTotals([cart EXCEPT !.items = <<>>, !.coupon = NoCoupon])

\* faulty variant: an array compared with a fresh array is never equal
isEmptyNever(cart) == FALSE

\* cartSchema.methods.isEmpty
isEmpty(cart) == Len(cart.items) = 0

\* cartSchema.methods.applyCoupon
applyCoupon(cart, couponCode, discount, discountType) ==
  CartCalculateTotals(
    [cart EXCEPT !.coupon = [code |-> couponCode, discount |-> discount,
                             discountType |-> discountType]])

\* cartSchema.methods.removeCoupon
removeCoupon(cart) == CartCalculateTotals([cart EXCEPT !.coupon = NoCoupon])

\* faulty variant: the shipping fields are set and the totals are left as they were
setShippingMethodStale(cart, method, cost) ==
  [cart EXCEPT !.shippingMethod = method, !.shippingCost = cost]

\* cartSchema.methods.setShippingMethod
setShippingMethod(cart, method, cost) ==
  CartCalculateTotals([cart EXCEPT !.shippingMethod = method, !.shippingCost = cost])

-----------------------------------------------------------------------------
(* Order model (models/Order.js) *)

NoOrder == [orderNumber |-> 0]

\* orderSchema.methods.addTimelineEvent
addTimelineEvent(order, status) ==
  [order EXCEPT !.timeline = Append(@, status)]

\* faulty variant: the status is set and the timeline is left alone
updateStatusSilent(order, newStatus) == [order EXCEPT !.status = newStatus]

\* orderSchema.methods.updateStatus
updateStatus(order, newStatus) ==
  addTimelineEvent([order EXCEPT !.status = newStatus], newStatus)

\* orderSchema.methods.updatePaymentStatus
updatePaymentStatus(order, newStatus) ==
  addTimelineEvent([order EXCEPT !.paymentStatus = newStatus],
                   IF newStatus = "paid" THEN "payment_paid" ELSE "payment_other")

\* orderSchema.methods.addShippingTracking
addShippingTracking(order, trackingNumber) ==
  addTimelineEvent([order EXCEPT !.shipping.trackingNumber = trackingNumber], "shipped")

\* faulty variant: the refunded amount is taken off the order's total
processRefundReducesTotal(order, amount, reason, method) ==
  addTimelineEvent(
    [order EXCEPT !.refund = [amount |-> amount, reason |-> reason, method |-> method],
                  !.status = "refunded", !.paymentStatus = "refunded",
                  !.pricing.total = @ - amount],
    "refunded")

\* faulty variant: a refund record that is there is kept
processRefundKeepsFirst(order, amount, reason, method) ==
  addTimelineEvent(
    [order EXCEPT !.refund = IF @.method = ""
                             THEN [amount |-> amount, reason |-> reason, method |-> method]
                             ELSE @,
                  !.status = "refunded", !.paymentStatus = "refunded"],
    "refunded")

\* orderSchema.methods.processRefund
processRefund(order, amount, reason, method) ==
  addTimelineEvent(
    [order EXCEPT !.refund = [amount |-> amount, reason |-> reason, method |-> method],
                  !.status = "refunded", !.paymentStatus = "refunded"],
    "refunded")

\* Number.prototype.toString: the decimal digits of a natural number
RECURSIVE Digits(_)
Digits(n) == IF n < 10 THEN <<n>> ELSE Digits(n \div 10) \o <<n % 10>>

\* String.prototype.padStart(width, "0"): zeros in front up to the width, and
\* nothing cut off a longer string
RECURSIVE PadStart(_, _)
PadStart(digits, width) ==
  IF Len(digits) >= width THEN digits ELSE PadStart(<<0>> \o digits, width)

\* String.prototype.slice(-2): the last two characters
SliceLast2(digits) ==
  IF Len(digits) <= 2 THEN digits ELSE SubSeq(digits, Len(digits) - 1, Len(digits))

\* new Date() in the pre-save hook; every request of a behaviour is served on
\* this one calendar day
Today == [year |-> 2026, month |-> 11, day |-> 6]

\* faulty variant: the serial is the count itself, not the count plus one
OrderNumberFromCount(date, orderCount) ==
  <<"ORD">> \o SliceLast2(Digits(date.year)) \o PadStart(Digits(date.month), 2)
            \o PadStart(Digits(date.day), 2) \o PadStart(Digits(orderCount), 4)

\* the order number the pre-save hook builds from the date and the number of
\* orders created since midnight: "ORD", YY, MM, DD and the padded serial
OrderNumber(date, orderCount) ==
  <<"ORD">> \o SliceLast2(Digits(date.year)) \o PadStart(Digits(date.month), 2)
            \o PadStart(Digits(date.day), 2) \o PadStart(Digits(orderCount + 1), 4)

\* orderSchema.methods.calculateTotals
OrderCalculateTotals(order) ==
  LET subtotal == SumTotalPrice(order.items)
      discount == CouponDiscount(subtotal, order.coupon)
      tax == Tax(subtotal - discount)
  IN [order EXCEPT !.pricing =
        [subtotal |-> subtotal, discount |-> discount,
         shipping |-> order.shipping.cost, tax |-> tax,
         total |-> subtotal - discount + tax + order.shipping.cost]]

\* cart.populate("items.product"): every line item carries the name and sku its
\* product has in the catalog at that moment
Populate(cart, catalog) ==
  [cart EXCEPT !.items =
     [i \in Indexes(cart.items) |->
        [id |-> cart.items[i].id, product |-> cart.items[i].product,
         quantity |-> cart.items[i].quantity, variant |-> cart.items[i].variant,
         price |-> cart.items[i].price, totalPrice |-> cart.items[i].totalPrice,
         name |-> catalog[cart.items[i].product].name,
         sku |-> catalog[cart.items[i].product].sku]]]

\* orderSchema.refund absent
NoRefund == [amount |-> 0, reason |-> "", method |-> ""]

\* routes/orders.js POST /: orderItems, the snapshot of the populated cart's line
\* items
OrderItems(cart) ==
  [i \in Indexes(cart.items) |->
     [product |-> cart.items[i].product, name |-> cart.items[i].name,
      sku |-> cart.items[i].sku, quantity |-> cart.items[i].quantity,
      price |-> cart.items[i].price, totalPrice |-> cart.items[i].totalPrice,
      variant |-> cart.items[i].variant]]

\* faulty variant: the order keeps the pricing block it was constructed with
NewOrderNotRecomputed(user, cart, shippingMethod) ==
  [orderNumber |-> <<>>, user |-> user, items |-> OrderItems(cart),
   status |-> "pending", paymentStatus |-> "pending",
   shipping |-> [method |-> shippingMethod, cost |-> ShippingCosts(shippingMethod),
                   trackingNumber |-> ""],
   pricing |-> [subtotal |-> cart.subtotal, tax |-> cart.tax,
                shipping |-> ShippingCosts(shippingMethod),
                discount |-> cart.coupon.discount, total |-> cart.total],
   coupon |-> cart.coupon, timeline |-> <<>>, refund |-> NoRefund]

\* faulty variant: the order is charged the shipping cost stored on the cart
NewOrderCartShipping(user, cart, shippingMethod) ==
  OrderCalculateTotals(
    [orderNumber |-> <<>>, user |-> user, items |-> OrderItems(cart),
     status |-> "pending", paymentStatus |-> "pending",
     shipping |-> [method |-> shippingMethod, cost |-> cart.shippingCost,
                   trackingNumber |-> ""],
     pricing |-> [subtotal |-> cart.subtotal, tax |-> cart.tax,
                  shipping |-> cart.shippingCost,
                  discount |-> cart.coupon.discount, total |-> cart.total],
     coupon |-> cart.coupon, timeline |-> <<>>, refund |-> NoRefund])

\* routes/orders.js POST /: new Order({...}) followed by order.calculateTotals()
NewOrder(user, cart, shippingMethod) ==
  OrderCalculateTotals(
    [orderNumber |-> <<>>, user |-> user, items |-> OrderItems(cart),
     status |-> "pending", paymentStatus |-> "pending",
     shipping |-> [method |-> shippingMethod, cost |-> ShippingCosts(shippingMethod),
                   trackingNumber |-> ""],
     pricing |-> [subtotal |-> cart.subtotal, tax |-> cart.tax,
                  shipping |-> ShippingCosts(shippingMethod),
                  discount |-> cart.coupon.discount, total |-> cart.total],
     coupon |-> cart.coupon, timeline |-> <<>>, refund |-> NoRefund])

-----------------------------------------------------------------------------
(* Request handlers.  Each await of the source is a step boundary: a step  *)
(* is what runs from one await's completion to the next await's issue.     *)

\* the collections as a request found them when it arrived (observer)
Db == [products |-> products, carts |-> carts, orders |-> orders]

IdleReq ==
  [kind |-> "idle", pc |-> "idle", user |-> "", method |-> "", cart |-> NoCart,
   missing |-> {}, i |-> 0, order |-> NoOrder, k |-> 0,
   status |-> 0, message |-> "", named |-> "", db0 |-> <<>>]

\* res.status(code).json({ message }): the handler has answered
Answer(r, code, message, named) ==
  [req[r] EXCEPT !.pc = "done", !.status = code, !.message = message, !.named = named]

\* checkouts that have not yet inserted their order
Unsaved ==
  {r \in Reqs : req[r].kind = "checkout" /\ req[r].pc \in {"validate", "count", "save"}}

\* POST /orders, up to the first await's completion: Cart.findOne(...).populate(...)
\* and the empty-cart check
CheckoutFindCart(r, user, shippingMethod) ==
  /\ req[r].pc = "idle"
  /\ Len(orders) + Cardinality(Unsaved) < MaxOrders
  /\ LET cart == carts[user]
         arrived == [IdleReq EXCEPT !.kind = "checkout", !.user = user,
                                    !.method = shippingMethod, !.db0 = Db]
     IN req' = [req EXCEPT ![r] =
          IF cart = NoCart \/ isEmpty(cart)
          THEN [arrived EXCEPT !.pc = "done", !.status = 400, !.message = "Cart is empty"]
          ELSE [arrived EXCEPT
                  !.pc = "validate", !.cart = Populate(cart, products), !.i = 1,
                  !.missing = {cart.items[j].product : j \in
                                 {j \in Indexes(cart.items) :
                                    ~products[cart.items[j].product].exists}}]]
  /\ UNCHANGED <<products, carts, orders, prev, calc>>

\* POST /orders, one turn of the stock validation loop: Product.findById and the test
CheckoutValidate(r) ==
  /\ req[r].pc = "validate"
  /\ LET item == req[r].cart.items[req[r].i]
         product == products[item.product]
     IN req' = [req EXCEPT ![r] =
          IF item.product \in req[r].missing \/ ~product.exists
          THEN \* item.product._id or product.name of null: TypeError, caught
               Answer(r, 500, "Server error", "")
          ELSE IF product.stock < item.quantity
          THEN Answer(r, 400, "Insufficient stock", item.product)
          ELSE IF req[r].i < Len(req[r].cart.items)
          THEN [req[r] EXCEPT !.i = @ + 1]
          ELSE [req[r] EXCEPT
                  !.pc = "count",
                  !.order = NewOrder(req[r].user, req[r].cart, req[r].method)]]
  /\ UNCHANGED <<products, carts, orders, prev, calc>>

\* faulty variant: the count includes the orders other checkouts are about to
\* insert
CheckoutCountOrdersReserved(r) ==
  /\ req[r].pc = "count"
  /\ req' = [req EXCEPT ![r].pc = "save", ![r].i = Len(orders),
                        ![r].order.orderNumber =
                          OrderNumber(Today, Len(orders) + Cardinality(
                            {o \in Reqs : req[o].kind = "checkout" /\ req[o].pc = "save"}))]
  /\ UNCHANGED <<products, carts, orders, prev, calc>>

\* faulty variant: the cart is cleared while the order is still being saved
CheckoutCountOrdersClearsCart(r) ==
  /\ req[r].pc = "count"
  /\ req' = [req EXCEPT ![r].pc = "save", ![r].i = Len(orders),
                        ![r].order.orderNumber = OrderNumber(Today, Len(orders))]
  /\ carts' = [carts EXCEPT ![req[r].user] = clearCart(req[r].cart)]
  /\ UNCHANGED <<products, orders, prev, calc>>

\* order.save(), the pre-save hook: countDocuments and the order number; i holds
\* orderCount
CheckoutCountOrders(r) ==
  /\ req[r].pc = "count"
  /\ req' = [req EXCEPT ![r].pc = "save", ![r].i = Len(orders),
                        ![r].order.orderNumber = OrderNumber(Today, Len(orders))]
  /\ UNCHANGED <<products, carts, orders, prev, calc>>

\* order.save(), the insert: orderNumber is a unique index
CheckoutSaveOrder(r) ==
  /\ req[r].pc = "save"
  /\ IF \E j \in Indexes(orders) : orders[j].orderNumber = req[r].order.orderNumber
     THEN /\ req' = [req EXCEPT ![r] = Answer(r, 500, "Server error", "")]
          /\ UNCHANGED orders
     ELSE /\ orders' = Append(orders, req[r].order)
          /\ req' = [req EXCEPT ![r].pc = "stock", ![r].i = 1, ![r].k = Len(orders) + 1]
  /\ UNCHANGED <<products, carts, prev, calc>>

\* Product.findByIdAndUpdate(id, { $inc: { stock: n } }): no document, no update
IncStock(id, n) ==
  IF products[id].exists
  THEN [products EXCEPT ![id].stock = @ + n]
  ELSE products

\* faulty variant: every turn of the loop decrements for the first line item
CheckoutUpdateStockFirstLine(r) ==
  /\ req[r].pc = "stock"
  /\ LET item == req[r].cart.items[1]
     IN products' = IncStock(item.product, -item.quantity)
  /\ req' = [req EXCEPT ![r] =
       IF req[r].i < Len(req[r].cart.items)
       THEN [req[r] EXCEPT !.i = @ + 1]
       ELSE [req[r] EXCEPT !.pc = "clear"]]
  /\ UNCHANGED <<carts, orders, prev, calc>>

\* POST /orders, one turn of the stock update loop
CheckoutUpdateStock(r) ==
  /\ req[r].pc = "stock"
  /\ LET item == req[r].cart.items[req[r].i]
     IN products' = IncStock(item.product, -item.quantity)
  /\ req' = [req EXCEPT ![r] =
       IF req[r].i < Len(req[r].cart.items)
       THEN [req[r] EXCEPT !.i = @ + 1]
       ELSE [req[r] EXCEPT !.pc = "clear"]]
  /\ UNCHANGED <<carts, orders, prev, calc>>

\* POST /orders: cart.clearCart(), cart.save(), and the 201 answer
CheckoutClearCart(r) ==
  /\ req[r].pc = "clear"
  /\ carts' = [carts EXCEPT ![req[r].user] = clearCart(req[r].cart)]
  /\ req' = [req EXCEPT ![r] = Answer(r, 201, "Order created successfully", "")]
  /\ UNCHANGED <<products, orders, prev, calc>>

\* PUT /orders/:id/cancel, up to the first await's completion: Order.findOne,
\* the status test and order.updateStatus
CancelFindOrder(r, user, k) ==
  /\ req[r].pc = "idle"
  /\ LET arrived == [IdleReq EXCEPT !.kind = "cancel", !.user = user, !.k = k, !.db0 = Db]
     IN req' = [req EXCEPT ![r] =
          IF k > Len(orders) \/ orders[k].user # user
          THEN [arrived EXCEPT !.pc = "done", !.status = 404,
                               !.message = "Order not found"]
          ELSE IF orders[k].status # "pending" /\ orders[k].status # "confirmed"
          THEN [arrived EXCEPT !.pc = "done", !.status = 400,
                               !.message = "Order cannot be cancelled at this stage"]
          ELSE [arrived EXCEPT !.pc = "cancelsave",
                               !.order = updateStatus(orders[k], "cancelled")]]
  /\ UNCHANGED <<products, carts, orders, prev, calc>>

\* PUT /orders/:id/cancel: order.save()
CancelSaveOrder(r) ==
  /\ req[r].pc = "cancelsave"
  /\ orders' = [orders EXCEPT ![req[r].k] = req[r].order]
  /\ req' = [req EXCEPT ![r].pc = "restore", ![r].i = 1]
  /\ UNCHANGED <<products, carts, prev, calc>>

\* faulty variant: every turn of the loop restores one unit
CancelRestoreStockOneUnit(r) ==
  /\ req[r].pc = "restore"
  /\ LET item == req[r].order.items[req[r].i]
     IN products' = IncStock(item.product, 1)
  /\ req' = [req EXCEPT ![r] =
       IF req[r].i < Len(req[r].order.items)
       THEN [req[r] EXCEPT !.i = @ + 1]
       ELSE Answer(r, 200, "Order cancelled successfully", "")]
  /\ UNCHANGED <<carts, orders, prev, calc>>

\* PUT /orders/:id/cancel, one turn of the stock restore loop, and the answer
CancelRestoreStock(r) ==
  /\ req[r].pc = "restore"
  /\ LET item == req[r].order.items[req[r].i]
     IN products' = IncStock(item.product, item.quantity)
  /\ req' = [req EXCEPT ![r] =
       IF req[r].i < Len(req[r].order.items)
       THEN [req[r] EXCEPT !.i = @ + 1]
       ELSE Answer(r, 200, "Order cancelled successfully", "")]
  /\ UNCHANGED <<carts, orders, prev, calc>>

\* what is remembered of the request answered last: a success, or "other"
Summary(done) ==
  IF done.status \in {200, 201}
  THEN [kind |-> done.kind, user |-> done.user, k |-> done.k, db0 |-> done.db0]
  ELSE [kind |-> "other", user |-> "", k |-> 0, db0 |-> <<>>]

\* the answer is delivered and the handler is gone; observed says whether the
\* observer prev follows the requests
Respond(r, observed) ==
  /\ req[r].pc = "done"
  /\ prev' = IF observed THEN Summary(req[r]) ELSE prev
  /\ req' = [req EXCEPT ![r] = IdleReq]
  /\ UNCHANGED <<products, carts, orders, calc>>

\* DELETE /sellers/products/:id by the product's seller
DeleteProduct(id) ==
  /\ products[id].exists
  /\ products' = [products EXCEPT ![id] = NoProduct]
  /\ UNCHANGED <<carts, orders, req, prev, calc>>

-----------------------------------------------------------------------------
(* Cart documents the specifications start from: built by the Cart methods *)

Line(productId, quantity, variant) ==
  [product |-> productId, quantity |-> quantity, variant |-> variant]

Red == [value |-> "red", price |-> USD(10, 0)]
Blue == [value |-> "blue", price |-> USD(25, 0)]

RECURSIVE AddAll(_, _)
AddAll(cart, adds) ==
  IF adds = <<>> THEN cart
  ELSE AddAll(addItem(cart, Head(adds).product, Head(adds).quantity, Head(adds).variant),
              Tail(adds))

\* POST /cart/:userId/apply-coupon applies this one coupon
Save10(cart) == applyCoupon(cart, "SAVE10", 10, "percentage")

StartAdds ==
  { <<>>,
    <<Line("p1", 2, Red), Line("p2", 1, Blue)>>,
    <<Line("p1", 1, NoVariant)>>,
    <<Line("p1", MaxQty, Red)>>,
    <<Line("p2", MaxQty, Blue)>>,
    <<Line("p1", MaxQty, Red), Line("p2", 1, Blue)>>,
    <<Line("p1", MaxQty, Red), Line("p1", MaxQty, Blue)>> }

StartCarts(user) ==
  LET built == {AddAll(NewCart(user), adds) : adds \in StartAdds}
  IN {NoCart} \cup built \cup {Save10(c) : c \in built}

NoCalc == [pc |-> "off"]

InitStore ==
  /\ products \in [Products -> {Product(s) : s \in {1, MaxStock}}]
  /\ orders = <<>>
  /\ req = [r \in Reqs |-> IdleReq]
  /\ prev = Summary(IdleReq)

-----------------------------------------------------------------------------
(* Spec: requests arrive one after the other *)

Client == "r1"

Init ==
  /\ InitStore
  /\ calc = NoCalc
  /\ carts \in {[u \in Users |-> IF u = "u1" THEN c1 ELSE c2] :
                  c1 \in StartCarts("u1"),
                  c2 \in {NoCart, AddAll(NewCart("u2"), <<Line("p1", MaxQty, Red)>>)}}

Next ==
  \/ \E u \in Users, m \in ShippingMethods : CheckoutFindCart(Client, u, m)
  \/ CheckoutValidate(Client)
  \/ CheckoutCountOrders(Client)
  \/ CheckoutSaveOrder(Client)
  \/ CheckoutUpdateStock(Client)
  \/ CheckoutClearCart(Client)
  \/ \E u \in Users, k \in 1..MaxOrders : CancelFindOrder(Client, u, k)
  \/ CancelSaveOrder(Client)
  \/ CancelRestoreStock(Client)
  \/ Respond(Client, TRUE)
  \/ \E id \in Products : req[Client].pc = "idle" /\ DeleteProduct(id)

Spec == Init /\ [][Next]_vars

-----------------------------------------------------------------------------
(* SpecConc: two request handlers run concurrently, interleaved at awaits *)

InitConc ==
  /\ InitStore
  /\ calc = NoCalc
  /\ carts \in {[u \in Users |-> AddAll(NewCart(u), adds)] :
                  adds \in {<<Line("p1", MaxQty, Red)>>,
                            <<Line("p1", MaxQty, Red), Line("p2", 1, Blue)>>}}

Handler(r) ==
  \/ \E u \in Users : CheckoutFindCart(r, u, "standard")
  \/ CheckoutValidate(r)
  \/ CheckoutCountOrders(r)
  \/ CheckoutSaveOrder(r)
  \/ CheckoutUpdateStock(r)
  \/ CheckoutClearCart(r)
  \/ \E u \in Users, k \in 1..MaxOrders : CancelFindOrder(r, u, k)
  \/ CancelSaveOrder(r)
  \/ CancelRestoreStock(r)
  \/ Respond(r, FALSE)

NextConc == \E r \in Reqs : Handler(r)

SpecConc == InitConc /\ [][NextConc]_vars

-----------------------------------------------------------------------------
(* SpecCheckouts: concurrent checkouts alone, interleaved at awaits *)

CheckoutHandler(r) ==
  \/ \E u \in Users : CheckoutFindCart(r, u, "standard")
  \/ CheckoutValidate(r)
  \/ CheckoutCountOrders(r)
  \/ CheckoutSaveOrder(r)
  \/ CheckoutUpdateStock(r)
  \/ CheckoutClearCart(r)
  \/ Respond(r, FALSE)

NextCheckouts == \E r \in Reqs : CheckoutHandler(r)

SpecCheckouts == InitConc /\ [][NextCheckouts]_vars

-----------------------------------------------------------------------------
(* SpecCart: the Cart methods applied to one customer's cart document, each *)
(* followed by cart.save() as in routes/cart.js                            *)

Shopper == "u1"

Coupons == {[code |-> "SAVE10", discount |-> 10, discountType |-> "percentage"],
            [code |-> "FIVE", discount |-> USD(5, 0), discountType |-> "fixed"]}

ShippingChoices == {[method |-> "standard", cost |-> USD(5, 99)],
                    [method |-> "express", cost |-> USD(12, 99)]}

\* GET /cart/:userId: the cart is created on first access
GetCart(user) ==
  /\ carts[user] = NoCart
  /\ carts' = [carts EXCEPT ![user] = NewCart(user)]
  /\ UNCHANGED <<products, orders, req, prev, calc>>

\* cartSchema.methods.getItemCount: the quantities of the line items, summed
RECURSIVE getItemCount(_)
getItemCount(items) ==
  IF items = <<>> THEN 0 ELSE Head(items).quantity + getItemCount(Tail(items))

Within(cart) ==
  /\ Len(cart.items) <= MaxItems
  /\ getItemCount(cart.items) <= MaxCartQty

AddItem(user, productId, quantity, variant) ==
  /\ carts[user] # NoCart
  /\ Within(addItem(carts[user], productId, quantity, variant))
  /\ carts' = [carts EXCEPT ![user] = addItem(@, productId, quantity, variant)]
  /\ UNCHANGED <<products, orders, req, prev, calc>>

RemoveItem(user, itemId) ==
  /\ carts[user] # NoCart
  /\ carts' = [carts EXCEPT ![user] = removeItem(@, itemId)]
  /\ UNCHANGED <<products, orders, req, prev, calc>>

UpdateItemQuantity(user, itemId, quantity) ==
  /\ carts[user] # NoCart
  /\ Within(updateItemQuantity(carts[user], itemId, quantity))
  /\ carts' = [carts EXCEPT ![user] = updateItemQuantity(@, itemId, quantity)]
  /\ UNCHANGED <<products, orders, req, prev, calc>>

ClearCart(user) ==
  /\ carts[user] # NoCart
  /\ carts' = [carts EXCEPT ![user] = clearCart(@)]
  /\ UNCHANGED <<products, orders, req, prev, calc>>

ApplyCoupon(user, coupon) ==
  /\ carts[user] # NoCart
  /\ carts' = [carts EXCEPT ![user] =
                 applyCoupon(@, coupon.code, coupon.discount, coupon.discountType)]
  /\ UNCHANGED <<products, orders, req, prev, calc>>

RemoveCoupon(user) ==
  /\ carts[user] # NoCart
  /\ carts' = [carts EXCEPT ![user] = removeCoupon(@)]
  /\ UNCHANGED <<products, orders, req, prev, calc>>

SetShippingMethod(user, choice) ==
  /\ carts[user] # NoCart
  /\ carts' = [carts EXCEPT ![user] = setShippingMethod(@, choice.method, choice.cost)]
  /\ UNCHANGED <<products, orders, req, prev, calc>>

InitCart ==
  /\ products = [id \in Products |-> Product(MaxStock)]
  /\ orders = <<>>
  /\ req = [r \in Reqs |-> IdleReq]
  /\ prev = Summary(IdleReq)
  /\ calc = NoCalc
  /\ carts = [u \in Users |-> NoCart]

NextCart ==
  \/ GetCart(Shopper)
  \/ \E p \in Products, q \in 1..MaxQty, v \in Variants \cup {NoVariant} :
       AddItem(Shopper, p, q, v)
  \/ \E id \in 1..(MaxItems + 1) : RemoveItem(Shopper, id)
  \/ \E id \in 1..(MaxItems + 1), q \in 0..MaxCartQty :
       UpdateItemQuantity(Shopper, id, q)
  \/ ClearCart(Shopper)
  \/ \E c \in Coupons : ApplyCoupon(Shopper, c)
  \/ RemoveCoupon(Shopper)
  \/ \E s \in ShippingChoices : SetShippingMethod(Shopper, s)

SpecCart == InitCart /\ [][NextCart]_vars

-----------------------------------------------------------------------------
(* SpecPricing: the two calculateTotals applied to drawn documents *)

PricedLines ==
  {<<>>} \cup
  {<<[id |-> 1, product |-> "p1", quantity |-> q, variant |-> v,
      price |-> v.price, totalPrice |-> q * v.price]>> :
     q \in 1..MaxQty, v \in Variants \cup {NoVariant}} \cup
  {<<[id |-> 1, product |-> "p1", quantity |-> q, variant |-> Red,
      price |-> Red.price, totalPrice |-> q * Red.price],
     [id |-> 2, product |-> "p2", quantity |-> 1, variant |-> Blue,
      price |-> Blue.price, totalPrice |-> Blue.price]>> : q \in 1..MaxQty}

AnyCoupons ==
  {NoCoupon} \cup
  {[code |-> "PCT", discount |-> d, discountType |-> "percentage"] :
     d \in {10, 50, 100, 150}} \cup
  {[code |-> "FIX", discount |-> USD(d, 0), discountType |-> "fixed"] :
     d \in {5, 20, 100}}

ShippingAmounts == {0, USD(5, 99)}

\* a cart and an order holding the drawn lines, coupon and shipping cost, their
\* derived fields not yet computed
Drawn(lines, coupon, cost) ==
  LET cart == Populate([NewCart(Shopper) EXCEPT !.items = lines, !.coupon = coupon,
                                                !.shippingCost = cost],
                       [id \in Products |-> Product(1)])
  IN [cart |-> cart, cartDone |-> FALSE, orderDone |-> FALSE,
      order |-> [orderNumber |-> <<>>, user |-> Shopper, items |-> OrderItems(cart),
                 status |-> "pending", paymentStatus |-> "pending",
                 shipping |-> [method |-> "standard", cost |-> cost,
                               trackingNumber |-> ""],
                 pricing |-> [subtotal |-> 0, discount |-> 0, shipping |-> 0,
                              tax |-> 0, total |-> 0],
                 coupon |-> coupon, timeline |-> <<>>, refund |-> NoRefund]]

InitPricing ==
  /\ InitStore
  /\ carts = [u \in Users |-> NoCart]
  /\ calc \in {Drawn(l, c, s) : l \in PricedLines, c \in AnyCoupons,
                                 s \in ShippingAmounts}

\* cart.calculateTotals()
CartTotals ==
  /\ ~calc.cartDone
  /\ calc' = [calc EXCEPT !.cart = CartCalculateTotals(@), !.cartDone = TRUE]
  /\ UNCHANGED <<products, carts, orders, req, prev>>

\* order.calculateTotals()
OrderTotals ==
  /\ ~calc.orderDone
  /\ calc' = [calc EXCEPT !.order = OrderCalculateTotals(@), !.orderDone = TRUE]
  /\ UNCHANGED <<products, carts, orders, req, prev>>

NextPricing == CartTotals \/ OrderTotals

SpecPricing == InitPricing /\ [][NextPricing]_vars

-----------------------------------------------------------------------------
(* SpecOrder: the life of an order after its checkout.  The customer's and *)
(* the administrator's requests and the seller's product edits are served  *)
(* one after the other.                                                    *)

MaxTimeline == 2     \* timeline entries an order collects before requests stop

\* the statuses the administrator sets, out of the seven of the schema
AdminStatuses == {"confirmed", "shipped", "cancelled"}

\* a handler that answers in the step it arrives in
Arrived(kind, user, k, amount) ==
  [IdleReq EXCEPT !.kind = kind, !.pc = "done", !.user = user, !.k = k, !.i = amount,
                  !.db0 = Db]

\* requests that append to the timeline of order k are served while it has room
Room(k) == k \in Indexes(orders) => Len(orders[k].timeline) < MaxTimeline

\* PUT /orders/admin/:id/status
AdminUpdateStatus(r, k, status) ==
  /\ req[r].pc = "idle" /\ Room(k)
  /\ IF k \notin Indexes(orders)
     THEN /\ req' = [req EXCEPT ![r] = [Arrived("status", "", k, 0) EXCEPT
                       !.status = 404, !.message = "Order not found"]]
          /\ UNCHANGED orders
     ELSE /\ orders' = [orders EXCEPT ![k] = updateStatus(@, status)]
          /\ req' = [req EXCEPT ![r] = [Arrived("status", "", k, 0) EXCEPT
                       !.status = 200, !.message = "Order status updated successfully"]]
  /\ UNCHANGED <<products, carts, prev, calc>>

\* PUT /orders/admin/:id/shipping
AdminUpdateShipping(r, k) ==
  /\ req[r].pc = "idle" /\ Room(k)
  /\ IF k \notin Indexes(orders)
     THEN /\ req' = [req EXCEPT ![r] = [Arrived("shipping", "", k, 0) EXCEPT
                       !.status = 404, !.message = "Order not found"]]
          /\ UNCHANGED orders
     ELSE /\ orders' = [orders EXCEPT ![k] = addShippingTracking(@, "TRACK-1")]
          /\ req' = [req EXCEPT ![r] = [Arrived("shipping", "", k, 0) EXCEPT
                       !.status = 200,
                       !.message = "Shipping information updated successfully"]]
  /\ UNCHANGED <<products, carts, prev, calc>>

\* faulty variant: the amount is not compared with the order's total
AdminRefundUnchecked(r, k, amount, method) ==
  /\ req[r].pc = "idle" /\ Room(k)
  /\ IF k \notin Indexes(orders)
     THEN /\ req' = [req EXCEPT ![r] = [Arrived("refund", "", k, amount) EXCEPT
                       !.method = method,
                       !.status = 404, !.message = "Order not found"]]
          /\ UNCHANGED orders
     ELSE /\ orders' = [orders EXCEPT ![k] =
                          processRefund(@, amount, "damaged", method)]
          /\ req' = [req EXCEPT ![r] = [Arrived("refund", "", k, amount) EXCEPT
                       !.method = method,
                       !.status = 200, !.message = "Refund processed successfully"]]
  /\ UNCHANGED <<products, carts, prev, calc>>

\* POST /orders/admin/:id/refund
AdminRefund(r, k, amount, method) ==
  /\ req[r].pc = "idle" /\ Room(k)
  /\ IF k \notin Indexes(orders)
     THEN /\ req' = [req EXCEPT ![r] = [Arrived("refund", "", k, amount) EXCEPT
                       !.method = method,
                       !.status = 404, !.message = "Order not found"]]
          /\ UNCHANGED orders
     ELSE IF amount > orders[k].pricing.total
     THEN /\ req' = [req EXCEPT ![r] = [Arrived("refund", "", k, amount) EXCEPT
                       !.method = method,
                       !.status = 400,
                       !.message = "Refund amount cannot exceed order total"]]
          /\ UNCHANGED orders
     ELSE /\ orders' = [orders EXCEPT ![k] =
                          processRefund(@, amount, "damaged", method)]
          /\ req' = [req EXCEPT ![r] = [Arrived("refund", "", k, amount) EXCEPT
                       !.method = method,
                       !.status = 200, !.message = "Refund processed successfully"]]
  /\ UNCHANGED <<products, carts, prev, calc>>

\* POST /payments/process-demo-payment: isSuccess is the outcome of Math.random
DemoPayment(r, user, k, isSuccess) ==
  /\ req[r].pc = "idle" /\ Room(k)
  /\ IF ~isSuccess
     THEN /\ req' = [req EXCEPT ![r] = [Arrived("payment", user, k, 0) EXCEPT
                       !.status = 400,
                       !.message = "Demo payment failed. Please try again."]]
          /\ UNCHANGED orders
     ELSE IF k \notin Indexes(orders) \/ orders[k].user # user
     THEN /\ req' = [req EXCEPT ![r] = [Arrived("payment", user, k, 0) EXCEPT
                       !.status = 404, !.message = "Order not found"]]
          /\ UNCHANGED orders
     ELSE /\ orders' = [orders EXCEPT ![k] =
                          updatePaymentStatus([@ EXCEPT !.paymentStatus = "paid"], "paid")]
          /\ req' = [req EXCEPT ![r] = [Arrived("payment", user, k, 0) EXCEPT
                       !.status = 200,
                       !.message = "Demo payment processed successfully"]]
  /\ UNCHANGED <<products, carts, prev, calc>>

\* PUT /sellers/products/:id by the product's seller: name, price and stock
UpdateProduct(id, name, price, stock) ==
  /\ products[id].exists
  /\ products' = [products EXCEPT ![id].name = name, ![id].price = price,
                                  ![id].stock = stock]
  /\ UNCHANGED <<carts, orders, req, prev, calc>>

\* the carts whose checkout created the order the specification starts with
OrderedCarts ==
  { Save10(AddAll(NewCart(Shopper), <<Line("p1", 2, Red), Line("p2", 1, Blue)>>)),
    AddAll(NewCart(Shopper), <<Line("p1", MaxQty, Red), Line("p1", 1, Blue)>>) }

\* the state a successful checkout leaves: the order, the stock that is left
\* and the cleared cart
InitOrder ==
  /\ products = [id \in Products |-> Product(1)]
  /\ \E cart \in OrderedCarts, m \in {"standard", "express"} :
       /\ orders = <<[NewOrder(Shopper, Populate(cart, products), m)
                        EXCEPT !.orderNumber = OrderNumber(Today, 0)]>>
       /\ carts = [u \in Users |-> IF u = Shopper THEN clearCart(cart) ELSE NoCart]
  /\ req = [r \in Reqs |-> IdleReq]
  /\ prev = Summary(IdleReq)
  /\ calc = NoCalc

NextOrder ==
  \/ \E u \in Users, k \in 1..MaxOrders : Room(k) /\ CancelFindOrder(Client, u, k)
  \/ CancelSaveOrder(Client)
  \/ CancelRestoreStock(Client)
  \/ \E k \in 1..MaxOrders, status \in AdminStatuses : AdminUpdateStatus(Client, k, status)
  \/ \E k \in 1..MaxOrders : AdminUpdateShipping(Client, k)
  \/ \E k \in 1..MaxOrders :
       \E amount \in {0, USD(1, 0)} \cup
                     (IF k \in Indexes(orders)
                      THEN {orders[k].pricing.total, orders[k].pricing.total + USD(0, 1)}
                      ELSE {}) :
         \E method \in {"original_payment", "store_credit"} :
           AdminRefund(Client, k, amount, method)
  \/ \E u \in Users, k \in 1..MaxOrders, isSuccess \in BOOLEAN :
       DemoPayment(Client, u, k, isSuccess)
  \/ Respond(Client, FALSE)
  \/ req[Client].pc = "idle" /\ UpdateProduct("p1", "Gadget", USD(35, 0), MaxStock)
  \/ \E id \in Products : req[Client].pc = "idle" /\ DeleteProduct(id)

SpecOrder == InitOrder /\ [][NextOrder]_vars

-----------------------------------------------------------------------------
(* SpecAdd: add-to-cart requests of one client, served one after the other *)

\* POST /cart/:userId/add with a well-formed customer key, from the product
\* lookup to the answer
PostAdd(r, user, productId, quantity, variant) ==
  /\ req[r].pc = "idle"
  /\ LET product == products[productId]
         arrived == [IdleReq EXCEPT !.kind = "add", !.pc = "done", !.user = user,
                                    !.named = productId, !.i = quantity, !.db0 = Db]
         cart == IF carts[user] = NoCart THEN NewCart(user) ELSE carts[user]
     IN IF ~product.exists
        THEN /\ req' = [req EXCEPT ![r] =
                  [arrived EXCEPT !.status = 404, !.message = "Product not found"]]
             /\ UNCHANGED carts
        ELSE IF ~isActive(product)
        THEN /\ req' = [req EXCEPT ![r] =
                  [arrived EXCEPT !.status = 400, !.message = "Product is not available"]]
             /\ UNCHANGED carts
        ELSE IF product.stock < quantity
        THEN /\ req' = [req EXCEPT ![r] =
                  [arrived EXCEPT !.status = 400, !.message = "Insufficient stock"]]
             /\ UNCHANGED carts
        ELSE /\ carts' = [carts EXCEPT ![user] = addItem(cart, productId, quantity, variant)]
             /\ req' = [req EXCEPT ![r] =
                  [arrived EXCEPT !.status = 200,
                                  !.message = "Item added to cart successfully"]]
  /\ UNCHANGED <<products, orders, prev, calc>>

InitAdd ==
  /\ InitStore
  /\ calc = NoCalc
  /\ carts \in {[u \in Users |-> IF u = Shopper THEN c ELSE NoCart] :
                  c \in StartCarts(Shopper)}

NextAdd ==
  \/ \E u \in Users, p \in Products, q \in 1..MaxQty, v \in Variants \cup {NoVariant} :
       PostAdd(Client, u, p, q, v)
  \/ Respond(Client, FALSE)
  \/ \E id \in Products : req[Client].pc = "idle" /\ DeleteProduct(id)

SpecAdd == InitAdd /\ [][NextAdd]_vars

-----------------------------------------------------------------------------
(* SpecMethods: one Cart method is called on a stored cart, and then once  *)
(* more with the same arguments; calc keeps the cart before, the call and  *)
(* the cart after each call.                                               *)

\* the carts a method is called on: built by addItem, with and without a coupon
\* and a shipping method
StoredCarts ==
  LET built == {AddAll(NewCart(Shopper), adds) : adds \in StartAdds}
      couponed == built \cup {Save10(c) : c \in built}
  IN couponed \cup {setShippingMethod(c, "express", USD(12, 99)) : c \in couponed}

NoCall == [name |-> "", product |-> "", quantity |-> 0, variant |-> NoVariant, itemId |-> 0]

InitMethods ==
  /\ products = [id \in Products |-> Product(MaxStock)]
  /\ orders = <<>>
  /\ req = [r \in Reqs |-> IdleReq]
  /\ prev = Summary(IdleReq)
  /\ carts = [u \in Users |-> NoCart]
  /\ calc \in {[pc |-> "stored", call |-> NoCall, cart0 |-> c, cart1 |-> c, cart2 |-> c] :
                 c \in StoredCarts}

\* the call recorded in calc, applied to a cart
Apply(call, cart) ==
  IF call.name = "addItem"
  THEN addItem(cart, call.product, call.quantity, call.variant)
  ELSE removeItem(cart, call.itemId)

\* cart.addItem(productId, quantity, variant)
CallAddItem(productId, quantity, variant) ==
  /\ calc.pc = "stored"
  /\ LET call == [NoCall EXCEPT !.name = "addItem", !.product = productId,
                                !.quantity = quantity, !.variant = variant]
     IN calc' = [calc EXCEPT !.pc = "once", !.call = call,
                             !.cart1 = Apply(call, calc.cart0),
                             !.cart2 = Apply(call, calc.cart0)]
  /\ UNCHANGED <<products, carts, orders, req, prev>>

\* cart.removeItem(itemId)
CallRemoveItem(itemId) ==
  /\ calc.pc = "stored"
  /\ LET call == [NoCall EXCEPT !.name = "removeItem", !.itemId = itemId]
     IN calc' = [calc EXCEPT !.pc = "once", !.call = call,
                             !.cart1 = Apply(call, calc.cart0),
                             !.cart2 = Apply(call, calc.cart0)]
  /\ UNCHANGED <<products, carts, orders, req, prev>>

\* the same call once more, on the cart the first call left
CallAgain ==
  /\ calc.pc = "once"
  /\ calc' = [calc EXCEPT !.pc = "twice", !.cart2 = Apply(calc.call, calc.cart1)]
  /\ UNCHANGED <<products, carts, orders, req, prev>>

NextMethods ==
  \/ \E p \in Products, q \in 1..MaxQty, v \in Variants \cup {NoVariant} :
       CallAddItem(p, q, v)
  \/ \E id \in 1..(MaxItems + 1) : CallRemoveItem(id)
  \/ CallAgain

SpecMethods == InitMethods /\ [][NextMethods]_vars

-----------------------------------------------------------------------------
(* Properties *)

RECURSIVE QtyOf(_, _)
\* the total quantity the line items hold of one product
QtyOf(items, productId) ==
  IF items = <<>> THEN 0
  ELSE (IF Head(items).product = productId THEN Head(items).quantity ELSE 0)
       + QtyOf(Tail(items), productId)

\* the checkout the sequential client is running or has just answered
Checkout == req[Client].kind = "checkout"
Answered == req[Client].pc = "done"

\* C1: under any interleaving of concurrent checkouts no product's stock is ever
\* below zero (a decrement that would take it below zero is rejected).
C1_StockNeverNegative ==
  \A id \in Products : products[id].stock >= 0

\* C2: at every point of a checkout, the stock of the cart's products has been
\* deducted if and only if the order has been persisted.
C2_StockDeductedIffOrderPersisted ==
  LET r == req[Client]
  IN (Checkout /\ r.cart # NoCart) =>
       \A j \in Indexes(r.cart.items) :
         LET id == r.cart.items[j].product
         IN products[id].exists =>
              ((Len(orders) = Len(r.db0.orders) + 1)
                 <=> (products[id].stock
                        = r.db0.products[id].stock - QtyOf(r.cart.items, id)))

\* the amount a coupon takes off a subtotal, as section 4.1 of the design states it
\* without the clamp
DiscountOf(subtotal, coupon) ==
  IF coupon = NoCoupon THEN 0
  ELSE IF coupon.discountType = "percentage"
       THEN (subtotal * coupon.discount) \div 100
       ELSE coupon.discount

\* C3: after every Cart mutation the stored cart satisfies
\* total = subtotal - discount + tax + shippingCost, with subtotal the sum of the
\* line totals, discount the amount of the current coupon and
\* tax = (subtotal - discount) * 8%.
C3_CartTotalsCurrent ==
  LET cart == carts[Shopper]
  IN cart # NoCart =>
       LET discount == DiscountOf(cart.subtotal, cart.coupon)
       IN /\ cart.subtotal = SumTotalPrice(cart.items)
          /\ cart.tax * 100 = (cart.subtotal - discount) * 8
          /\ cart.total = cart.subtotal - discount + cart.tax + cart.shippingCost

\* C3 witness: a cart with two line items, a coupon and a shipping cost, whose
\* total is the sum of four non-zero parts
C3_Witness ==
  LET cart == carts[Shopper]
  IN /\ cart # NoCart
     /\ Len(cart.items) = 2
     /\ cart.coupon # NoCoupon
     /\ cart.shippingCost > 0
     /\ cart.tax > 0
     /\ cart.subtotal > cart.items[1].totalPrice
     /\ cart.items[1].totalPrice > 0

\* C4: for every set of line items and every coupon the discount the two
\* calculateTotals compute is at most the subtotal, so the tax is never negative.
C4_DiscountAtMostSubtotal ==
  /\ calc.cartDone =>
       /\ DiscountOf(calc.cart.subtotal, calc.cart.coupon) <= calc.cart.subtotal
       /\ calc.cart.tax >= 0
  /\ calc.orderDone =>
       /\ calc.order.pricing.discount <= calc.order.pricing.subtotal
       /\ calc.order.pricing.tax >= 0

\* the cart the client's checkout found when it arrived
CartAtArrival == req[Client].db0.carts[req[Client].user]

\* C5: a checkout for a customer whose cart is missing or has no line items is
\* answered 400 "Cart is empty" at once and has written nothing: orders, products
\* and carts are as the request found them.
C5_EmptyCartRejected ==
  (Checkout /\ (CartAtArrival = NoCart \/ CartAtArrival.items = <<>>)) =>
    /\ Answered
    /\ req[Client].status = 400
    /\ req[Client].message = "Cart is empty"
    /\ Db = req[Client].db0

\* C5 witness: a checkout answered "Cart is empty" for a cart that exists and was
\* emptied by an earlier order
C5_Witness ==
  /\ Checkout /\ Answered
  /\ req[Client].message = "Cart is empty"
  /\ CartAtArrival # NoCart
  /\ Len(orders) = 1

\* the products of the arriving cart's line items that are gone or short
ShortProducts ==
  {CartAtArrival.items[j].product : j \in
     {j \in Indexes(CartAtArrival.items) :
        LET product == req[Client].db0.products[CartAtArrival.items[j].product]
        IN ~product.exists \/ CartAtArrival.items[j].quantity > product.stock}}

\* C6: a checkout with a line item whose quantity exceeds the product's stock, or
\* whose product no longer exists, is answered 400 InsufficientStock naming such a
\* product, creates no order and leaves products and carts as they were.
C6_ShortStockRejected ==
  (Checkout /\ Answered /\ CartAtArrival # NoCart /\ ShortProducts # {}) =>
    /\ req[Client].status = 400
    /\ req[Client].message = "Insufficient stock"
    /\ req[Client].named \in ShortProducts
    /\ Db = req[Client].db0

\* C6, the part about stock alone: every product of the cart still exists
C6_Witness ==
  /\ Checkout /\ Answered /\ CartAtArrival # NoCart /\ ShortProducts # {}
  /\ req[Client].status = 400
  /\ req[Client].message = "Insufficient stock"
  /\ Len(CartAtArrival.items) = 2
  /\ req[Client].named = CartAtArrival.items[2].product

\* the order the client's successful checkout inserted
NewOrderInserted ==
  /\ Len(orders) = Len(req[Client].db0.orders) + 1
  /\ SubSeq(orders, 1, Len(orders) - 1) = req[Client].db0.orders
  /\ orders[Len(orders)].user = req[Client].user
  /\ orders[Len(orders)].items = OrderItems(Populate(CartAtArrival, req[Client].db0.products))

\* C7 as stated: after a successful checkout exactly one new order exists and, for
\* every line item of the cart, the product's stock is its stock before the
\* checkout minus that line's quantity; other products are unchanged.
C7_StockMinusLineQuantity ==
  (Checkout /\ Answered /\ req[Client].status = 201) =>
    /\ NewOrderInserted
    /\ \A j \in Indexes(CartAtArrival.items) :
         LET line == CartAtArrival.items[j]
         IN products[line.product].stock
              = req[Client].db0.products[line.product].stock - line.quantity
    /\ \A id \in Products :
         QtyOf(CartAtArrival.items, id) = 0 => products[id] = req[Client].db0.products[id]

\* C7 amended: after a successful checkout exactly one new order exists and every
\* product's stock is its stock before the checkout minus the total quantity of
\* the cart's line items for that product (nothing, for a product not in the cart).
C7_StockMinusProductQuantity ==
  (Checkout /\ Answered /\ req[Client].status = 201) =>
    /\ NewOrderInserted
    /\ \A id \in Products :
         /\ products[id].exists = req[Client].db0.products[id].exists
         /\ products[id].stock
              = req[Client].db0.products[id].stock - QtyOf(CartAtArrival.items, id)

\* C7 witness: a successful checkout of a cart holding two line items of one
\* product and an order of another customer already there
C7_Witness ==
  /\ Checkout /\ Answered /\ req[Client].status = 201
  /\ Len(CartAtArrival.items) = 2
  /\ CartAtArrival.items[1].product = CartAtArrival.items[2].product
  /\ Len(orders) = 2

\* C8: after a successful checkout the customer's cart exists, has no line items
\* and no coupon; a checkout of the same customer that follows it at once is
\* answered "Cart is empty" and creates no order.
C8_CartClearedAfterCheckout ==
  /\ (Checkout /\ Answered /\ req[Client].status = 201) =>
       /\ carts[req[Client].user] # NoCart
       /\ carts[req[Client].user].items = <<>>
       /\ carts[req[Client].user].coupon = NoCoupon
  /\ (Checkout /\ prev.kind = "checkout" /\ prev.user = req[Client].user) =>
       /\ Answered
       /\ req[Client].status = 400
       /\ req[Client].message = "Cart is empty"
       /\ orders = req[Client].db0.orders

\* C8 witness: the second checkout, answered, after a first one that took a cart
\* with a coupon
C8_Witness ==
  /\ Checkout /\ Answered
  /\ prev.kind = "checkout" /\ prev.user = req[Client].user
  /\ prev.db0.carts[prev.user].coupon # NoCoupon
  /\ Len(orders) = 1

\* routes/orders.js shippingCosts, as the claim lists them
ListedShippingCost(method) ==
  IF method = "standard" THEN USD(5, 99)
  ELSE IF method = "express" THEN USD(12, 99)
  ELSE USD(24, 99)

\* the worked example of the design: quantity 2 at $10.00 and quantity 1 at $25.00,
\* coupon 10%, standard shipping
IsExample(order) ==
  /\ Len(order.items) = 2
  /\ order.items[1].quantity = 2 /\ order.items[1].price = USD(10, 0)
  /\ order.items[2].quantity = 1 /\ order.items[2].price = USD(25, 0)
  /\ order.coupon.discount = 10 /\ order.coupon.discountType = "percentage"
  /\ order.shipping.method = "standard"

\* C9: the pricing block of every order created by checkout is the pricing
\* computation applied to the order's snapshot items, the cart's coupon and the
\* shipping cost listed for the chosen method, with tax 8%; its total is
\* subtotal - discount + tax + shipping; the worked example gives subtotal 45.00,
\* discount 4.50, tax 3.24, total 49.73.
C9_OrderPricing ==
  /\ \A k \in Indexes(orders) :
       LET order == orders[k]
           subtotal == SumTotalPrice(order.items)
           discount == DiscountOf(subtotal, order.coupon)
       IN /\ order.pricing.subtotal = subtotal
          /\ order.pricing.discount = discount
          /\ order.pricing.shipping = ListedShippingCost(order.shipping.method)
          /\ order.pricing.tax * 100 = (subtotal - discount) * 8
          /\ order.pricing.total = order.pricing.subtotal - order.pricing.discount
                                     + order.pricing.tax + order.pricing.shipping
          /\ IsExample(order) =>
               order.pricing = [subtotal |-> USD(45, 0), discount |-> USD(4, 50),
                                tax |-> USD(3, 24), shipping |-> USD(5, 99),
                                total |-> USD(49, 73)]
  /\ (Checkout /\ Answered /\ req[Client].status = 201) =>
       /\ orders[Len(orders)].coupon = CartAtArrival.coupon
       /\ orders[Len(orders)].items = OrderItems(Populate(CartAtArrival, req[Client].db0.products))
       /\ orders[Len(orders)].shipping.method = req[Client].method

\* C9 witness: the order of the worked example has been created
C9_Witness ==
  \E k \in Indexes(orders) :
    IsExample(orders[k]) /\ orders[k].pricing.total = USD(49, 73)

\* C10: each turn of the cancellation's restore loop adds exactly the line item's
\* quantity to its product's stock and touches no other product, and when the
\* cancellation of a pending order directly follows the checkout that created it,
\* every product's stock is back at its value before that checkout.
C10_CancelRestoresStock ==
  [][ /\ (req[Client].pc = "restore" /\ req'[Client] # req[Client]) =>
           LET item == req[Client].order.items[req[Client].i]
           IN \A id \in Products :
                /\ products'[id].exists = products[id].exists
                /\ products'[id].exists =>
                     products'[id].stock =
                       products[id].stock
                         + (IF id = item.product THEN item.quantity ELSE 0)
      /\ (/\ req'[Client].kind = "cancel" /\ req'[Client].pc = "done"
          /\ req'[Client].status = 200
          /\ req'[Client].db0.orders[req'[Client].k].status = "pending") =>
           /\ orders'[req'[Client].k].status = "cancelled"
           /\ \A id \in Products :
                products'[id].exists =>
                  products'[id].stock =
                    req'[Client].db0.products[id].stock
                      + QtyOf(orders'[req'[Client].k].items, id)
           /\ (prev'.kind = "checkout" /\ prev'.k = req'[Client].k) =>
                \A id \in Products :
                  products'[id].exists =>
                    products'[id].stock = prev'.db0.products[id].stock
    ]_vars

\* C10 witness: a checkout of two line items of one product, cancelled at once
C10_Witness ==
  /\ req[Client].kind = "cancel" /\ Answered /\ req[Client].status = 200
  /\ prev.kind = "checkout" /\ prev.k = req[Client].k
  /\ Len(orders[req[Client].k].items) = 2
  /\ orders[req[Client].k].items[1].product = orders[req[Client].k].items[2].product
  /\ products[orders[req[Client].k].items[1].product].exists

\* string comparison of two order numbers: character by character after "ORD",
\* a proper prefix being the smaller
RECURSIVE LexLess(_, _)
LexLess(a, b) ==
  IF b = <<>> THEN FALSE
  ELSE IF a = <<>> THEN TRUE
  ELSE IF Head(a) # Head(b) THEN Head(a) < Head(b)
  ELSE LexLess(Tail(a), Tail(b))

\* C13: with checkouts served one after the other on one calendar day, the j-th
\* order created has the number ORD, the date as YYMMDD, and j padded to four
\* digits; the numbers are pairwise distinct and increase in creation order.
C13_OrderNumbersIncrease ==
  /\ \A j \in Indexes(orders) :
       j < 10 => orders[j].orderNumber = <<"ORD", 2, 6, 1, 1, 0, 6, 0, 0, 0, j>>
  /\ \A j, k \in Indexes(orders) :
       j < k => /\ orders[j].orderNumber # orders[k].orderNumber
                /\ LexLess(Tail(orders[j].orderNumber), Tail(orders[k].orderNumber))

\* C13 witness: two orders created by two successive checkouts
C13_Witness ==
  /\ Len(orders) >= 2
  /\ orders[1].orderNumber = <<"ORD", 2, 6, 1, 1, 0, 6, 0, 0, 0, 1>>
  /\ orders[2].orderNumber = <<"ORD", 2, 6, 1, 1, 0, 6, 0, 0, 0, 2>>

\* the first line item of a product in a list of line items, 0 if there is none
FirstOf(items, productId) ==
  IF \E i \in Indexes(items) : items[i].product = productId
  THEN CHOOSE i \in Indexes(items) :
         /\ items[i].product = productId
         /\ \A j \in 1..(i - 1) : items[j].product # productId
  ELSE 0

\* C14: addItem with no variant, on a cart that has a line item of the product,
\* adds no line item: the product's first line has its quantity raised by the
\* added quantity, its unit price kept and its line total set to the new
\* quantity times that unit price; every other line item is as it was.
C14_AddSameProductMerges ==
  LET call == calc.call
      k == FirstOf(calc.cart0.items, call.product)
  IN (calc.pc \in {"once", "twice"} /\ call.name = "addItem"
        /\ call.variant = NoVariant /\ k # 0) =>
       /\ Len(calc.cart1.items) = Len(calc.cart0.items)
       /\ calc.cart1.items[k].quantity = calc.cart0.items[k].quantity + call.quantity
       /\ calc.cart1.items[k].price = calc.cart0.items[k].price
       /\ calc.cart1.items[k].totalPrice
            = (calc.cart0.items[k].quantity + call.quantity) * calc.cart0.items[k].price
       /\ \A j \in Indexes(calc.cart0.items) :
            j # k => calc.cart1.items[j] = calc.cart0.items[j]

\* C14 witness: a product added with no variant to a cart whose second line item
\* is of that product and was added with a variant
C14_Witness ==
  /\ calc.pc = "once" /\ calc.call.name = "addItem" /\ calc.call.variant = NoVariant
  /\ Len(calc.cart0.items) = 2
  /\ FirstOf(calc.cart0.items, calc.call.product) = 2
  /\ calc.cart1.items[2].totalPrice > calc.cart0.items[2].totalPrice

\* the ids of a cart's line items
ItemIds(cart) == {cart.items[i].id : i \in Indexes(cart.items)}

\* C15: removeItem with an id no line item has leaves the cart exactly as it
\* was (line items, coupon, shipping fields, subtotal, tax, total), and
\* removeItem applied twice gives what it gives applied once.
C15_RemoveMissingIsNoOp ==
  (calc.pc \in {"once", "twice"} /\ calc.call.name = "removeItem") =>
    /\ calc.call.itemId \notin ItemIds(calc.cart0) => calc.cart1 = calc.cart0
    /\ calc.cart2 = calc.cart1

\* C15 witness: removeItem called twice with an id that is not in a cart of two
\* line items with a coupon and a shipping cost
C15_Witness ==
  /\ calc.pc = "twice" /\ calc.call.name = "removeItem"
  /\ calc.call.itemId \notin ItemIds(calc.cart0)
  /\ Len(calc.cart0.items) = 2
  /\ calc.cart0.coupon # NoCoupon /\ calc.cart0.shippingCost > 0

\* C19: a line item appended by addItem has the variant's price as its unit
\* price when a variant is given and the product's catalog price otherwise, and
\* quantity times that unit price as its line total.
C19_NewLinePrice ==
  LET call == calc.call
      n == Len(calc.cart1.items)
  IN (calc.pc = "once" /\ call.name = "addItem"
        /\ n = Len(calc.cart0.items) + 1) =>
       LET unit == IF call.variant # NoVariant THEN call.variant.price
                   ELSE products[call.product].price
       IN /\ calc.cart1.items[n].price = unit
          /\ calc.cart1.items[n].totalPrice = call.quantity * unit

\* C19, the part about a variant: a line item appended with a variant given
C19_Witness ==
  /\ calc.pc = "once" /\ calc.call.name = "addItem" /\ calc.call.variant # NoVariant
  /\ Len(calc.cart1.items) = Len(calc.cart0.items) + 1
  /\ calc.cart1.items[Len(calc.cart1.items)].price = calc.call.variant.price

\* C18: an add-to-cart request for an existing product that is on sale, with a
\* quantity from 1 up to the product's stock, is answered 200 and the
\* customer's cart then holds a line item of that product.
C18_AddToCartSucceeds ==
  LET r == req[Client]
  IN (r.kind = "add" /\ r.pc = "done"
        /\ r.db0.products[r.named].exists
        /\ r.db0.products[r.named].status = "active"
        /\ r.i >= 1 /\ r.i <= r.db0.products[r.named].stock) =>
       /\ r.status = 200
       /\ carts[r.user] # NoCart
       /\ \E j \in Indexes(carts[r.user].items) : carts[r.user].items[j].product = r.named

\* C11: whatever the customer, the administrator and the seller do, an order
\* becomes cancelled only from pending or confirmed, and a customer's cancel
\* request for an order in another status is answered 400 and changes nothing.
C11_CancelledOnlyFromPendingOrConfirmed ==
  [][ /\ \A k \in Indexes(orders) :
           (k \in Indexes(orders') /\ orders'[k].status = "cancelled"
              /\ orders[k].status # "cancelled") =>
             orders[k].status \in {"pending", "confirmed"}
      /\ (req[Client].pc = "idle" /\ req'[Client].kind = "cancel"
            /\ req'[Client].k \in Indexes(orders)
            /\ orders[req'[Client].k].user = req'[Client].user
            /\ orders[req'[Client].k].status \notin {"pending", "confirmed"}) =>
           /\ req'[Client].pc = "done" /\ req'[Client].status = 400
           /\ orders' = orders /\ products' = products
    ]_vars

\* C11, the part about the customer's request: a cancel request for a shipped
\* order has been answered 400
C11_Witness ==
  /\ req[Client].kind = "cancel" /\ req[Client].pc = "done" /\ req[Client].status = 400
  /\ orders[req[Client].k].status = "shipped"

\* C12: a refund request whose amount is greater than the order's total is
\* answered 400 and leaves the order (status, payment status, refund record,
\* timeline and all the rest) as it was.
C12_RefundAboveTotalRejected ==
  LET r == req[Client]
  IN (r.kind = "refund" /\ r.pc = "done" /\ r.k \in Indexes(r.db0.orders)
        /\ r.i > r.db0.orders[r.k].pricing.total) =>
       /\ r.status = 400
       /\ orders = r.db0.orders

\* C12 witness: a refund of one cent more than the total of a paid order, rejected
C12_Witness ==
  LET r == req[Client]
  IN /\ r.kind = "refund" /\ r.pc = "done" /\ r.status = 400
     /\ r.k \in Indexes(orders)
     /\ r.i = orders[r.k].pricing.total + USD(0, 1)
     /\ orders[r.k].paymentStatus = "paid"
     /\ orders[r.k].refund = NoRefund

\* a is b with entries added at its end, or b itself
IsPrefix(b, a) == Len(b) <= Len(a) /\ SubSeq(a, 1, Len(b)) = b

\* C16: no step removes or alters a timeline entry, and a step that changes an
\* order's status appends exactly one entry, which carries the new status.
C16_TimelineAppendOnly ==
  [][ /\ Len(orders') >= Len(orders)
      /\ \A k \in Indexes(orders) :
           /\ IsPrefix(orders[k].timeline, orders'[k].timeline)
           /\ orders'[k].status # orders[k].status =>
                orders'[k].timeline = Append(orders[k].timeline, orders'[k].status)
    ]_vars

\* C16 witness: an order confirmed by the administrator and then cancelled by
\* the customer, with both entries on its timeline
C16_Witness ==
  /\ req[Client].kind = "cancel" /\ req[Client].pc = "done" /\ req[Client].status = 200
  /\ orders[1].status = "cancelled"
  /\ orders[1].timeline = <<"confirmed", "cancelled">>

\* C17: no step changes the line-item snapshot or the pricing block of an
\* existing order.
C17_SnapshotNeverChanges ==
  [][ \A k \in Indexes(orders) :
        /\ k \in Indexes(orders')
        /\ orders'[k].items = orders[k].items
        /\ orders'[k].pricing = orders[k].pricing
    ]_vars

\* C17 witness: an order refunded after its product was renamed and repriced,
\* its snapshot still carrying the name and the price of the checkout
C17_Witness ==
  /\ orders[1].status = "refunded"
  /\ orders[1].refund.amount = orders[1].pricing.total
  /\ products[orders[1].items[1].product].name = "Gadget"
  /\ orders[1].items[1].name = "Widget"
  /\ orders[1].pricing.total > 0

\* the checkout in progress has inserted its order
OrderPersisted == Len(orders) = Len(req[Client].db0.orders) + 1

\* the checkout in progress has decremented the stock for every line item
AllStockDecremented ==
  \A id \in Products :
    products[id].exists =>
      products[id].stock
        = req[Client].db0.products[id].stock - QtyOf(req[Client].cart.items, id)

\* C20: at every point of a checkout, stock differs from what the request found
\* only if the order has been persisted, and the cart differs from what the
\* request found only if the order has been persisted and the stock has been
\* decremented for every line item.
C20_PersistThenStockThenCart ==
  LET r == req[Client]
  IN (Checkout /\ r.cart # NoCart) =>
       /\ products # r.db0.products => OrderPersisted
       /\ carts # r.db0.carts => (OrderPersisted /\ AllStockDecremented)

\* C20 witness: a checkout of two line items about to clear the cart, the order
\* persisted and the stock of both line items decremented
C20_Witness ==
  /\ Checkout /\ req[Client].pc = "clear"
  /\ Len(req[Client].cart.items) = 2
  /\ OrderPersisted /\ AllStockDecremented
  /\ products # req[Client].db0.products
  /\ carts = req[Client].db0.carts

\* the sum over the line items of unit price times quantity
RECURSIVE SumPriceTimesQuantity(_)
SumPriceTimesQuantity(items) ==
  IF items = <<>> THEN 0
  ELSE Head(items).price * Head(items).quantity + SumPriceTimesQuantity(Tail(items))

\* C21: in every cart state each line item's line total is its unit price times
\* its quantity, and the subtotal is the sum of unit price times quantity over
\* the line items.
C21_LineTotalsAndSubtotal ==
  LET cart == carts[Shopper]
  IN cart # NoCart =>
       /\ \A i \in Indexes(cart.items) :
            cart.items[i].totalPrice = cart.items[i].price * cart.items[i].quantity
       /\ cart.subtotal = SumPriceTimesQuantity(cart.items)

\* C21 witness: a cart of two priced line items, one of them with a quantity
\* above what a single add gives
C21_Witness ==
  LET cart == carts[Shopper]
  IN /\ cart # NoCart /\ Len(cart.items) = 2
     /\ cart.items[1].price > 0 /\ cart.items[2].price > 0
     /\ cart.items[1].quantity + cart.items[2].quantity = MaxCartQty
     /\ cart.subtotal > 0

\* the position of a status on the chain pending, confirmed, processing,
\* shipped, delivered
ChainPosition(status) ==
  CASE status = "pending" -> 1
    [] status = "confirmed" -> 2
    [] status = "processing" -> 3
    [] status = "shipped" -> 4
    [] status = "delivered" -> 5
    [] OTHER -> 0

\* C22: a step that changes an order's status starts from a status other than
\* cancelled and refunded and, when it ends on the chain, ends further along it
\* than it started; a request for any other change is answered with an error
\* and changes nothing.
C22_StatusOnlyMovesForward ==
  [][ /\ \A k \in Indexes(orders) :
           (k \in Indexes(orders') /\ orders'[k].status # orders[k].status) =>
             /\ orders[k].status \notin {"cancelled", "refunded"}
             /\ ChainPosition(orders'[k].status) # 0 =>
                  ChainPosition(orders'[k].status) > ChainPosition(orders[k].status)
      /\ (req[Client].pc = "idle" /\ req'[Client].kind = "status"
            /\ req'[Client].k \in Indexes(orders)
            /\ req'[Client].status = 200) =>
           orders[req'[Client].k].status \notin {"cancelled", "refunded"}
    ]_vars

\* C23: a refund request that was accepted (its amount at most the order's
\* total, whatever the order's status was) leaves the order in status refunded
\* with payment status refunded and with a refund record holding the amount,
\* the reason and the method of this request, whatever record was there before.
C23_RefundOverwritesRecord ==
  LET r == req[Client]
  IN (r.kind = "refund" /\ r.pc = "done" /\ r.k \in Indexes(r.db0.orders)
        /\ r.i <= r.db0.orders[r.k].pricing.total) =>
       /\ r.status = 200
       /\ orders[r.k].status = "refunded"
       /\ orders[r.k].paymentStatus = "refunded"
       /\ orders[r.k].refund = [amount |-> r.i, reason |-> "damaged", method |-> r.method]

\* C23 witness: a second accepted refund, of another amount and by another
\* method than the first
C23_Witness ==
  LET r == req[Client]
  IN /\ r.kind = "refund" /\ r.pc = "done" /\ r.status = 200
     /\ r.db0.orders[r.k].refund # NoRefund
     /\ r.db0.orders[r.k].refund.amount # r.i
     /\ r.db0.orders[r.k].refund.method # r.method
     /\ orders[r.k].refund.amount = r.i

\* checkouts whose pre-save hook has built the order number and whose order is
\* not inserted yet
Numbered == {r \in Reqs : req[r].kind = "checkout" /\ req[r].pc = "save"}

\* C24: concurrent checkouts that have counted the same number of orders carry
\* the same order number, the one built from that count; only the unique index
\* keeps the inserted orders' numbers apart.
C24_ConcurrentNumbersCollide ==
  /\ \A r, o \in Numbered :
       req[r].i = req[o].i => req[r].order.orderNumber = req[o].order.orderNumber
  /\ \A r \in Numbered :
       req[r].i < 9 =>
         req[r].order.orderNumber = <<"ORD", 2, 6, 1, 1, 0, 6, 0, 0, 0, req[r].i + 1>>
  /\ \A j, k \in Indexes(orders) : j # k => orders[j].orderNumber # orders[k].orderNumber

\* C24 witness: two checkouts of two customers, both numbered and not inserted,
\* with one and the same order number
C24_Witness ==
  /\ Numbered = Reqs
  /\ req["r1"].user # req["r2"].user
  /\ req["r1"].i = req["r2"].i
  /\ req["r1"].order.orderNumber = req["r2"].order.orderNumber

\* the quantity of a product in the orders that are not cancelled
RECURSIVE QtyInOpenOrders(_, _)
QtyInOpenOrders(os, id) ==
  IF os = <<>> THEN 0
  ELSE (IF Head(os).status = "cancelled" THEN 0 ELSE QtyOf(Head(os).items, id))
       + QtyInOpenOrders(Tail(os), id)

\* no seller has edited or deleted a product, and no request is half-way
Undisturbed ==
  /\ req[Client].pc \in {"idle", "done"}
  /\ \A id \in Products : products[id].exists /\ products[id].name = "Widget"

\* C25: as long as no seller edits a product, between requests every product's
\* stock plus its quantity in the orders that are not cancelled is the stock
\* there was before the order's checkout (the unit left plus the order's
\* quantity).
C25_StockConserved ==
  Undisturbed =>
    \A id \in Products :
      products[id].stock + QtyInOpenOrders(orders, id) = 1 + QtyOf(orders[1].items, id)


\* C26: an order whose status is refunded has a refund record with an amount of
\* at most the order's total, and has payment status refunded.
C26_RefundedOrderIsConsistent ==
  \A k \in Indexes(orders) :
    orders[k].status = "refunded" =>
      /\ orders[k].refund # NoRefund
      /\ orders[k].refund.amount <= orders[k].pricing.total
      /\ orders[k].paymentStatus = "refunded"

\* the timeline entries that record an order status, the payment events left out
StatusEntries(timeline) == SelectSeq(timeline, LAMBDA e : e \notin {"payment_paid", "payment_other"})

\* C27: the most recent timeline entry that records an order status carries the
\* order's current status.
C27_LastStatusEntryIsCurrent ==
  \A k \in Indexes(orders) :
    LET entries == StatusEntries(orders[k].timeline)
    IN entries # <<>> => entries[Len(entries)] = orders[k].status


-----------------------------------------------------------------------------
(* SpecFirstAccess: two requests at a time reach for the cart of a customer *)
(* key.  Nothing in the schema keeps the user field of two documents apart, *)
(* so here carts is the Cart collection itself: the sequence of its         *)
(* documents in the order of their insertion, a document's position being   *)
(* its _id.                                                                 *)

\* a customer key that is neither an ObjectId nor a temporary key
IllFormedKey == "guest"

\* validateUserId; the well-formed keys are those of Users, the ObjectIds among
\* them being those of existing users
validateUserId(userId) == [isValid |-> userId \in Users]

\* Cart.findOne({ user: userId }): the _id of the first document of that user,
\* 0 if there is none
CartFindOne(userId) ==
  FindIndex({i \in Indexes(carts) : carts[i].user = userId})

\* GET /cart/:userId up to the issue of Cart.findOne
GetCartArrive(r, userId) ==
  /\ req[r].pc = "idle"
  /\ LET arrived == [IdleReq EXCEPT !.kind = "getcart", !.user = userId, !.db0 = Db]
     IN req' = [req EXCEPT ![r] =
          IF ~validateUserId(userId).isValid
          THEN [arrived EXCEPT !.pc = "done", !.status = 400,
                               !.message = "Invalid user ID format"]
          ELSE [arrived EXCEPT !.pc = "find"]]
  /\ UNCHANGED <<products, carts, orders, prev, calc>>

\* POST /cart/:userId/add up to the issue of Cart.findOne: the key and the
\* product are checked
PostAddArrive(r, userId, productId, quantity) ==
  /\ req[r].pc = "idle"
  /\ LET product == products[productId]
         arrived == [IdleReq EXCEPT !.kind = "add", !.user = userId,
                                    !.named = productId, !.i = quantity, !.db0 = Db]
     IN req' = [req EXCEPT ![r] =
          IF ~validateUserId(userId).isValid
          THEN [arrived EXCEPT !.pc = "done", !.status = 400,
                               !.message = "Invalid user ID format"]
          ELSE IF ~product.exists
          THEN [arrived EXCEPT !.pc = "done", !.status = 404,
                               !.message = "Product not found"]
          ELSE IF ~isActive(product)
          THEN [arrived EXCEPT !.pc = "done", !.status = 400,
                               !.message = "Product is not available"]
          ELSE IF product.stock < quantity
          THEN [arrived EXCEPT !.pc = "done", !.status = 400,
                               !.message = "Insufficient stock"]
          ELSE [arrived EXCEPT !.pc = "find"]]
  /\ UNCHANGED <<products, carts, orders, prev, calc>>

\* either route: Cart.findOne completes; GET answers with the cart it found,
\* and with none both routes build a new Cart for the key
FirstAccessFind(r) ==
  /\ req[r].pc = "find"
  /\ LET k == CartFindOne(req[r].user)
         cart == IF k = 0 THEN NewCart(req[r].user) ELSE carts[k]
     IN req' = [req EXCEPT ![r] =
          IF k # 0 /\ req[r].kind = "getcart"
          THEN [req[r] EXCEPT !.pc = "done", !.k = k, !.cart = cart, !.status = 200]
          ELSE [req[r] EXCEPT !.pc = "save", !.k = k, !.cart = cart]]
  /\ UNCHANGED <<products, carts, orders, prev, calc>>

\* either route: cart.save(), an insert for a new Cart and the write of the
\* whole document for one that was found; POST add has called addItem first
FirstAccessSave(r) ==
  /\ req[r].pc = "save"
  /\ LET cart == IF req[r].kind = "add"
                 THEN addItem(req[r].cart, req[r].named, req[r].i, NoVariant)
                 ELSE req[r].cart
     IN /\ carts' = IF req[r].k = 0 THEN Append(carts, cart)
                    ELSE [carts EXCEPT ![req[r].k] = cart]
        /\ req' = [req EXCEPT ![r] =
             [req[r] EXCEPT !.pc = "done", !.cart = cart, !.status = 200,
                            !.k = IF req[r].k = 0 THEN Len(carts) + 1 ELSE req[r].k]]
  /\ UNCHANGED <<products, orders, prev, calc>>

InitFirstAccess ==
  /\ InitStore
  /\ calc = NoCalc
  /\ carts = <<>>

NextFirstAccess ==
  \E r \in Reqs :
    \/ \E userId \in Users \cup {IllFormedKey} : GetCartArrive(r, userId)
    \/ \E userId \in Users \cup {IllFormedKey}, productId \in Products, quantity \in 1..MaxQty :
         PostAddArrive(r, userId, productId, quantity)
    \/ FirstAccessFind(r)
    \/ FirstAccessSave(r)
    \/ Respond(r, FALSE)

SpecFirstAccess == InitFirstAccess /\ [][NextFirstAccess]_vars

\* C28: no two documents of the Cart collection have the same customer key.
C28_OneCartPerKey ==
  \A i, j \in Indexes(carts) : carts[i].user = carts[j].user => i = j


-----------------------------------------------------------------------------
(* SpecUpdate: add-to-cart and update-quantity requests of one client,      *)
(* served one after the other                                               *)

\* faulty variant: the quantity is not compared with the product's stock
PutUpdateUnchecked(r, user, itemId, quantity) ==
  /\ req[r].pc = "idle"
  /\ LET arrived == [IdleReq EXCEPT !.kind = "update", !.pc = "done", !.user = user,
                                    !.k = itemId, !.i = quantity, !.db0 = Db]
         cart == carts[user]
         k == IF cart = NoCart THEN 0
              ELSE FindIndex({i \in Indexes(cart.items) : cart.items[i].id = itemId})
     IN IF cart = NoCart
        THEN /\ req' = [req EXCEPT ![r] =
                  [arrived EXCEPT !.status = 404, !.message = "Cart not found"]]
             /\ UNCHANGED carts
        ELSE IF k = 0
        THEN /\ req' = [req EXCEPT ![r] =
                  [arrived EXCEPT !.status = 404, !.message = "Item not found in cart"]]
             /\ UNCHANGED carts
        ELSE IF ~products[cart.items[k].product].exists
        THEN /\ req' = [req EXCEPT ![r] =
                  [arrived EXCEPT !.status = 500, !.message = "Server error"]]
             /\ UNCHANGED carts
        ELSE /\ carts' = [carts EXCEPT ![user] = updateItemQuantity(cart, itemId, quantity)]
             /\ req' = [req EXCEPT ![r] =
                  [arrived EXCEPT !.named = cart.items[k].product, !.status = 200,
                                  !.message = "Cart updated successfully"]]
  /\ UNCHANGED <<products, orders, prev, calc>>

\* PUT /cart/:userId/update/:itemId with a well-formed customer key and a
\* quantity of at least 1, from the cart lookup to the answer
PutUpdate(r, user, itemId, quantity) ==
  /\ req[r].pc = "idle"
  /\ LET arrived == [IdleReq EXCEPT !.kind = "update", !.pc = "done", !.user = user,
                                    !.k = itemId, !.i = quantity, !.db0 = Db]
         cart == carts[user]
         k == IF cart = NoCart THEN 0
              ELSE FindIndex({i \in Indexes(cart.items) : cart.items[i].id = itemId})
     IN IF cart = NoCart
        THEN /\ req' = [req EXCEPT ![r] =
                  [arrived EXCEPT !.status = 404, !.message = "Cart not found"]]
             /\ UNCHANGED carts
        ELSE IF k = 0
        THEN /\ req' = [req EXCEPT ![r] =
                  [arrived EXCEPT !.status = 404, !.message = "Item not found in cart"]]
             /\ UNCHANGED carts
        ELSE IF ~products[cart.items[k].product].exists
        THEN \* product.stock of null: TypeError, caught
             /\ req' = [req EXCEPT ![r] =
                  [arrived EXCEPT !.status = 500, !.message = "Server error"]]
             /\ UNCHANGED carts
        ELSE IF products[cart.items[k].product].stock < quantity
        THEN /\ req' = [req EXCEPT ![r] =
                  [arrived EXCEPT !.named = cart.items[k].product, !.status = 400,
                                  !.message = "Insufficient stock"]]
             /\ UNCHANGED carts
        ELSE /\ carts' = [carts EXCEPT ![user] = updateItemQuantity(cart, itemId, quantity)]
             /\ req' = [req EXCEPT ![r] =
                  [arrived EXCEPT !.named = cart.items[k].product, !.status = 200,
                                  !.message = "Cart updated successfully"]]
  /\ UNCHANGED <<products, orders, prev, calc>>

NextUpdate ==
  \/ \E u \in Users, p \in Products, q \in 1..MaxQty, v \in Variants \cup {NoVariant} :
       PostAdd(Client, u, p, q, v)
  \/ \E u \in Users, itemId \in 1..(MaxItems + 1), q \in 1..MaxStock :
       PutUpdate(Client, u, itemId, q)
  \/ Respond(Client, FALSE)
  \/ \E id \in Products : req[Client].pc = "idle" /\ DeleteProduct(id)

SpecUpdate == InitAdd /\ [][NextUpdate]_vars

\* the line items a request wrote: those of the customer's cart that are not in
\* the cart the request found
Written(r) ==
  LET now == carts[r.user].items
      before == IF r.db0.carts[r.user] = NoCart THEN <<>> ELSE r.db0.carts[r.user].items
  IN {i \in Indexes(now) : i > Len(before) \/ now[i] # before[i]}

-----------------------------------------------------------------------------
(* SpecCheckoutPricing: checkouts of one client, for carts with and without *)
(* a shipping method stored on them                                         *)

\* PUT /cart/:userId/shipping-method stores the method and the cost of the
\* request's body: a listed pair, or a cost the table does not list
StoredShipping ==
  ShippingChoices \cup {[method |-> "overnight", cost |-> USD(1, 0)]}

InitCheckoutPricing ==
  /\ InitStore
  /\ calc = NoCalc
  /\ carts \in {[u \in Users |-> IF u = Shopper THEN c ELSE NoCart] :
                  c \in StartCarts(Shopper) \cup
                        {setShippingMethod(cart, choice.method, choice.cost) :
                           cart \in StartCarts(Shopper) \ {NoCart},
                           choice \in StoredShipping}}

NextCheckoutPricing ==
  \/ \E u \in Users, m \in ShippingMethods : CheckoutFindCart(Client, u, m)
  \/ CheckoutValidate(Client)
  \/ CheckoutCountOrders(Client)
  \/ CheckoutSaveOrder(Client)
  \/ CheckoutUpdateStock(Client)
  \/ CheckoutClearCart(Client)
  \/ Respond(Client, FALSE)

SpecCheckoutPricing == InitCheckoutPricing /\ [][NextCheckoutPricing]_vars

\* the order the client's checkout created
CreatedOrder == orders[req[Client].k]

\* C30 as stated: the total of the order a checkout created is the total stored
\* on the cart the checkout found, whatever the cart and the shipping method.
C30_OrderTotalIsCartTotal ==
  (Checkout /\ Answered /\ req[Client].status = 201) =>
    CreatedOrder.pricing.total = CartAtArrival.total

\* C30: the total of the order a checkout created is the total stored on the
\* cart the checkout found with the cart's stored shipping cost replaced by the
\* cost listed for the checkout's shipping method; the two totals are equal
\* exactly when the cart's stored shipping cost is that listed cost.
C30_OrderTotalReplacesShipping ==
  (Checkout /\ Answered /\ req[Client].status = 201) =>
    /\ CreatedOrder.pricing.total =
         CartAtArrival.total - CartAtArrival.shippingCost
           + ListedShippingCost(req[Client].method)
    /\ (CreatedOrder.pricing.total = CartAtArrival.total) <=>
         (CartAtArrival.shippingCost = ListedShippingCost(req[Client].method))

\* C30 witness: a checkout by express shipping of a cart with a coupon that
\* stored the standard method's cost
C30_Witness ==
  /\ Checkout /\ Answered /\ req[Client].status = 201
  /\ req[Client].method = "express"
  /\ CartAtArrival.shippingMethod = "standard"
  /\ CartAtArrival.shippingCost = USD(5, 99)
  /\ CartAtArrival.coupon # NoCoupon
  /\ CreatedOrder.pricing.total = CartAtArrival.total + USD(7, 0)

====
